---- MODULE Spec2Model ----
(***************************************************************************)
(* A model of github.com/hyperjiang/finance: the annuity formulas (PMT,    *)
(* IPMT, PPMT, PV, FV, NPER, RATE) and the Loan installment calculator.    *)
(*                                                                         *)
(* float64 values are modelled as fractions <<n, d>> in lowest terms with  *)
(* d > 0, together with the three IEEE-754 special values, written with a  *)
(* zero denominator: <<1, 0>> is +Inf, <<-1, 0>> is -Inf and <<0, 0>> is   *)
(* NaN.  Arithmetic is exact as long as numerators and denominators fit   *)
(* in MantissaMax; a value that does not fit is rounded (both parts are    *)
(* halved until they fit), the way a float64 result that does not fit the  *)
(* mantissa is rounded.  Zero is unsigned: the sign of x/0 is the sign of  *)
(* x.                                                                      *)
(***************************************************************************)
EXTENDS Integers, Sequences, FiniteSets, TLC

\* Largest numerator and denominator magnitude a value holds.
MantissaMax == 1000000000

----------------------------------------------------------------------------
\* float64 arithmetic

NaN == <<0, 0>>
PosInf == <<1, 0>>
NegInf == <<-1, 0>>
Zero == <<0, 1>>
One == <<1, 1>>

IAbs(k) == IF k < 0 THEN -k ELSE k
ISign(k) == IF k < 0 THEN -1 ELSE IF k > 0 THEN 1 ELSE 0
IMax(j, k) == IF j < k THEN k ELSE j

IsNaN(x) == x = NaN
IsInf(x) == x[2] = 0 /\ x[1] # 0
IsFinite(x) == x[2] # 0

RECURSIVE GCD(_, _)
GCD(a, b) == IF b = 0 THEN a ELSE GCD(b, a % b)

\* Halve toward zero.
Half(k) == IF k < 0 THEN -((-k) \div 2) ELSE k \div 2

\* The product j * k is at most MantissaMax in magnitude.
Fits(j, k) == j = 0 \/ k = 0 \/ IAbs(j) <= MantissaMax \div IAbs(k)

\* Round n/d (d >= 0) to a value whose parts fit the mantissa.
RECURSIVE Fit(_, _)
Fit(n, d) ==
    IF d = 0 THEN (IF n > 0 THEN PosInf ELSE IF n < 0 THEN NegInf ELSE NaN)
    ELSE IF n = 0 THEN Zero
    ELSE IF IAbs(n) <= MantissaMax /\ d <= MantissaMax
         THEN LET g == GCD(IAbs(n), d) IN <<n \div g, d \div g>>
         ELSE Fit(Half(n), d \div 2)

\* The float64 nearest to n/d, d # 0.
Norm(n, d) ==
    LET s == IF d < 0 THEN -1 ELSE 1
        g == GCD(IAbs(n), IAbs(d))
    IN  Fit((s * n) \div g, IAbs(d) \div g)

Neg(x) == <<-x[1], x[2]>>

FAbs(x) == <<IAbs(x[1]), x[2]>>

\* The divisor a rounding step uses: large while the operands are far
\* from fitting.
ShrinkBy(far) == IF far THEN 32 ELSE 2

Shrunk(k, q) == IF k < 0 THEN -((-k) \div q) ELSE k \div q

\* The parts of a/b + c/d over the common denominator fit.
AddFits(a, b, c, d) ==
    LET g == GCD(b, d)
    IN  Fits(a, d \div g) /\ Fits(c, b \div g) /\ Fits(b \div g, d)

\* a/b + c/d for b, d > 0: exact when the parts of the sum fit; otherwise
\* the operand with the finer denominator is rounded first.
RECURSIVE AddFinite(_, _, _, _)
AddFinite(a, b, c, d) ==
    IF AddFits(a, b, c, d)
    THEN LET g == GCD(b, d)
         IN  Norm(a * (d \div g) + c * (b \div g), (b \div g) * d)
    ELSE IF b >= d
         THEN LET q == ShrinkBy(b >= 64 /\ ~AddFits(a \div 32, b \div 32, c, d))
              IN  AddFinite(Shrunk(a, q), b \div q, c, d)
         ELSE LET q == ShrinkBy(d >= 64 /\ ~AddFits(a, b, c \div 32, d \div 32))
              IN  AddFinite(a, b, Shrunk(c, q), d \div q)

\* (a * c) / (b * d) for b, d > 0 and a, c # 0: exact when both products
\* fit; otherwise the longer factor above and the longer factor below are
\* rounded first.  A product too large for the mantissa overflows to an
\* infinity, one too small underflows to zero.
RECURSIVE MulScaled(_, _, _, _)
MulScaled(a, b, c, d) ==
    IF a = 0 \/ c = 0 THEN Zero
    ELSE IF b = 0 \/ d = 0 THEN Fit(ISign(a) * ISign(c), 0)
    ELSE IF Fits(a, c) /\ Fits(b, d) THEN Norm(a * c, b * d)
    ELSE LET q == ShrinkBy(~(Fits(a \div 1024, c) /\ Fits(b \div 1024, d)))
             a1 == IF IAbs(a) >= IAbs(c) THEN Shrunk(a, q) ELSE a
             c1 == IF IAbs(a) >= IAbs(c) THEN c ELSE Shrunk(c, q)
             b1 == IF b >= d THEN b \div q ELSE b
             d1 == IF b >= d THEN d ELSE d \div q
         IN  MulScaled(a1, b1, c1, d1)

\* (a/b) * (c/d) for b, d > 0.
MulFinite(a, b, c, d) ==
    IF a = 0 \/ c = 0 THEN Zero
    ELSE LET g1 == GCD(IAbs(a), d)
             g2 == GCD(IAbs(c), b)
         IN  MulScaled(a \div g1, b \div g2, c \div g2, d \div g1)

Add(x, y) ==
    IF IsNaN(x) \/ IsNaN(y) THEN NaN
    ELSE IF IsInf(x) /\ IsInf(y) THEN (IF x = y THEN x ELSE NaN)
    ELSE IF IsInf(x) THEN x
    ELSE IF IsInf(y) THEN y
    ELSE AddFinite(x[1], x[2], y[1], y[2])

Sub(x, y) == Add(x, Neg(y))

Mul(x, y) ==
    IF IsNaN(x) \/ IsNaN(y) THEN NaN
    ELSE IF IsInf(x) \/ IsInf(y)
         THEN (IF x[1] = 0 \/ y[1] = 0 THEN NaN
               ELSE IF ISign(x[1]) * ISign(y[1]) > 0 THEN PosInf ELSE NegInf)
    ELSE MulFinite(x[1], x[2], y[1], y[2])

Div(x, y) ==
    IF IsNaN(x) \/ IsNaN(y) THEN NaN
    ELSE IF IsInf(x)
         THEN (IF IsInf(y) THEN NaN
               ELSE IF ISign(x[1]) * (IF y[1] < 0 THEN -1 ELSE 1) > 0
                    THEN PosInf ELSE NegInf)
    ELSE IF IsInf(y) THEN Zero
    ELSE IF y[1] = 0
         THEN (IF x[1] = 0 THEN NaN ELSE IF x[1] > 0 THEN PosInf ELSE NegInf)
    ELSE MulFinite(x[1], x[2], ISign(y[1]) * y[2], IAbs(y[1]))

\* a/b < c/d for naturals a, c and b, d > 0, without forming a product.
RECURSIVE FracLess(_, _, _, _)
FracLess(a, b, c, d) ==
    LET q1 == a \div b
        q2 == c \div d
        r1 == a % b
        r2 == c % d
    IN  IF q1 # q2 THEN q1 < q2
        ELSE IF r2 = 0 THEN FALSE
        ELSE IF r1 = 0 THEN TRUE
        ELSE FracLess(d, r2, b, r1)

\* x < y on float64: false when either is NaN.
Lt(x, y) ==
    IF IsNaN(x) \/ IsNaN(y) THEN FALSE
    ELSE IF x = y THEN FALSE
    ELSE IF x = NegInf \/ y = PosInf THEN TRUE
    ELSE IF x = PosInf \/ y = NegInf THEN FALSE
    ELSE IF x[1] < 0 /\ y[1] >= 0 THEN TRUE
    ELSE IF x[1] >= 0 /\ y[1] < 0 THEN FALSE
    ELSE IF x[1] >= 0 THEN FracLess(x[1], x[2], y[1], y[2])
    ELSE FracLess(-y[1], y[2], -x[1], x[2])

Gt(x, y) == Lt(y, x)
Le(x, y) == ~IsNaN(x) /\ ~IsNaN(y) /\ ~Lt(y, x)
Ge(x, y) == Le(y, x)

\* float64(k) for an int k.
FromInt(k) == <<k, 1>>

\* math.Pow(x, float64(k)) for an int k.
RECURSIVE PowNat(_, _)
PowNat(x, k) == IF k = 0 THEN One ELSE Mul(x, PowNat(x, k - 1))

Pow(x, k) ==
    IF k = 0 THEN One
    ELSE IF k > 0 THEN PowNat(x, k)
    ELSE Div(One, PowNat(x, -k))

----------------------------------------------------------------------------
\* Package-level configuration and the state of the calls in progress

VARIABLES
    Accuracy,       \* var Accuracy: the accuracy in numeric approximations
    MaxIterations,  \* var MaxIterations
    Precision,      \* var Precision: the precision in installment
    args,           \* the arguments of the formula being called
    op,             \* the formula that was called last ("" before any call)
    ret,            \* what it returned
    pc,             \* where the call of RATE is: "idle", "loop" or "done"
    frame,          \* the local variables of RATE
    loan,           \* the Loan the methods are called on
    lpc,            \* where the call of CalculateInstallments is
    lframe,         \* the local variables of CalculateInstallments
    lret,           \* the slice CalculateInstallments returned
    otherArgs,      \* the arguments of a second, concurrent call of RATE
    otherPc,        \* where that call is
    otherFrame,     \* its local variables
    otherRet        \* what it returned

vars == <<Accuracy, MaxIterations, Precision, args, op, ret, pc, frame,
          loan, lpc, lframe, lret, otherArgs, otherPc, otherFrame, otherRet>>

formulaVars == <<args, op, ret>>
rateVars == <<pc, frame>>
loanVars == <<loan, lpc, lframe, lret>>
otherVars == <<otherArgs, otherPc, otherFrame, otherRet>>

config == <<Accuracy, MaxIterations, Precision>>

\* Defaults of the package-level variables.
DefaultAccuracy == <<1, 1000000>>
DefaultMaxIterations == 100
DefaultPrecision == 2

\* installment methods
EqualPayment == 0
EqualPrincipal == 1

----------------------------------------------------------------------------
\* The annuity formulas

\* Present value interest factor
pvif(r, nper) == Pow(Add(One, r), nper)

\* fvifa without the branch for the removable singularity at rate = 0.
fvifa_NoSingularity(r, nper) == Div(Sub(Pow(Add(One, r), nper), One), r)

\* Future value interest factor of annuities
fvifa(r, nper) ==
    IF r = Zero THEN FromInt(nper)
    ELSE Div(Sub(Pow(Add(One, r), nper), One), r)

\* calculateInterest on the compounded present value alone, the payments
\* made so far left out.
calculateInterest_NoPayments(pv, pmt, r, per) ==
    Neg(Mul(Mul(pv, Pow(Add(One, r), per)), r))

calculateInterest(pv, pmt, r, per) ==
    Neg(Add(Mul(Mul(pv, Pow(Add(One, r), per)), r),
            Mul(pmt, Sub(Pow(Add(One, r), per), One))))

PMT(r, nper, pv, fv, due) ==
    Div(Neg(Add(Mul(pv, pvif(r, nper)), fv)),
        Mul(Add(One, Mul(r, due)), fvifa(r, nper)))

\* IPMT with the upper bound of the period off by one.
IPMT_LateBound(r, per, nper, pv, fv, due) ==
    IF (per < 1) \/ (per > (nper + 1)) THEN Zero
    ELSE calculateInterest(pv, PMT(r, nper, pv, fv, due), r, per - 1)

IPMT(r, per, nper, pv, fv, due) ==
    IF (per < 1) \/ (per >= (nper + 1)) THEN Zero
    ELSE calculateInterest(pv, PMT(r, nper, pv, fv, due), r, per - 1)

\* PPMT adding the interest to the payment instead of taking it off.
PPMT_AddInterest(r, per, nper, pv, fv, due) ==
    IF (per < 1) \/ (per >= (nper + 1)) THEN Zero
    ELSE LET pmt == PMT(r, nper, pv, fv, due)
             ipmt == calculateInterest(pv, pmt, r, per - 1)
         IN  Add(pmt, ipmt)

\* PPMT without the check of the period's range.
PPMT_NoRangeCheck(r, per, nper, pv, fv, due) ==
    LET pmt == PMT(r, nper, pv, fv, due)
        ipmt == calculateInterest(pv, pmt, r, per - 1)
    IN  Sub(pmt, ipmt)

PPMT(r, per, nper, pv, fv, due) ==
    IF (per < 1) \/ (per >= (nper + 1)) THEN Zero
    ELSE LET pmt == PMT(r, nper, pv, fv, due)
             ipmt == calculateInterest(pv, pmt, r, per - 1)
         IN  Sub(pmt, ipmt)

\* PV ignoring the timing of the payments.
PV_NoDue(r, nper, pmt, fv, due) ==
    Div(Sub(Mul(Neg(pmt), fvifa(r, nper)), fv), pvif(r, nper))

PV(r, nper, pmt, fv, due) ==
    Div(Sub(Mul(Mul(Neg(pmt), Add(One, Mul(r, due))), fvifa(r, nper)), fv),
        pvif(r, nper))

FV(r, nper, pmt, pv, due) ==
    Sub(Mul(Mul(Neg(pmt), Add(One, Mul(r, due))), fvifa(r, nper)),
        Mul(pv, pvif(r, nper)))

\* math.Log(x) as far as it is a special value (NaN, -Inf, +Inf or 0);
\* otherwise its sign as 1 or -1.
LogClass(x) ==
    IF IsNaN(x) \/ Lt(x, Zero) THEN NaN
    ELSE IF x = Zero THEN NegInf
    ELSE IF x = PosInf THEN PosInf
    ELSE IF x = One THEN Zero
    ELSE IF Gt(x, One) THEN One
    ELSE Neg(One)

\* The k with t = b^k for finite t > 0 and b > 1, counted from k0, or the
\* quotient of the two logarithms as the term <<t, b>> when there is none.
RECURSIVE IntLog(_, _, _, _)
IntLog(t, b, k0, t0) ==
    IF t = One THEN FromInt(k0)
    ELSE IF Gt(t, One)
         THEN (IF Lt(t, b) THEN <<t0[1], t0[2], b[1], b[2]>>
               ELSE IntLog(Div(t, b), b, k0 + 1, t0))
         ELSE (IF Gt(Mul(t, b), One) THEN <<t0[1], t0[2], b[1], b[2]>>
               ELSE IntLog(Mul(t, b), b, k0 - 1, t0))

\* math.Log(t) / math.Log(b): the exact quotient when it is an integer or a
\* special value, and the term <<t.n, t.d, b.n, b.d>> otherwise.
LogQuot(t, b) ==
    LET lt == LogClass(t)
        lb == LogClass(b)
    IN  IF lt \in {One, Neg(One)} /\ lb \in {One, Neg(One)}
        THEN (IF lb = One THEN IntLog(t, b, 0, t)
              ELSE <<t[1], t[2], b[1], b[2]>>)
        ELSE Div(lt, lb)

\* NPER without the guard on the argument of the logarithm.
NPER_NoLogGuard(r, pmt, pv, fv, due) ==
    IF r = Zero /\ pmt # Zero THEN Sub(Neg(fv), Div(pv, pmt))
    ELSE IF Le(r, Zero) THEN Zero
    ELSE LET initial == Mul(pmt, Add(One, Mul(r, due)))
             tmp == Div(Sub(initial, Mul(fv, r)), Add(Mul(pv, r), initial))
         IN  LogQuot(tmp, Add(One, r))

NPER(r, pmt, pv, fv, due) ==
    IF r = Zero /\ pmt # Zero THEN Sub(Neg(fv), Div(pv, pmt))
    ELSE IF Le(r, Zero) THEN Zero
    ELSE LET initial == Mul(pmt, Add(One, Mul(r, due)))
             tmp == Div(Sub(initial, Mul(fv, r)), Add(Mul(pv, r), initial))
         IN  IF Le(tmp, Zero) THEN Zero
             ELSE LogQuot(tmp, Add(One, r))

\* math.Exp(float64(nper) * math.Log(x))
ExpLog(nper, x) ==
    LET lg == LogClass(x)
        e == Mul(FromInt(nper), IF lg = Neg(One) THEN Neg(One) ELSE lg)
    IN  IF lg \in {One, Neg(One)} THEN Pow(x, nper)
        ELSE IF IsNaN(e) THEN NaN
        ELSE IF e = PosInf THEN PosInf
        ELSE IF e = NegInf THEN Zero
        ELSE One

\* What the closure lamda of RATE returns at r, and what it leaves in the
\* captured variable f, which held f0.
lamdaF(r, f0, acc, a) ==
    IF Lt(FAbs(r), acc) THEN f0 ELSE ExpLog(a.nper, Add(One, r))

lamda(r, f0, acc, a) ==
    IF Lt(FAbs(r), acc)
    THEN Add(Add(Mul(a.pv, Add(One, Mul(FromInt(a.nper), r))),
                 Mul(Mul(a.pmt, Add(One, Mul(r, a.due))), FromInt(a.nper))),
             a.fv)
    ELSE LET f == lamdaF(r, f0, acc, a)
         IN  Add(Add(Mul(a.pv, f),
                     Mul(Mul(a.pmt, Add(Div(One, r), a.due)), Sub(f, One))),
                 a.fv)

\* The loop condition without the limit on the number of iterations.
RateContinue_NoLimit(fr, acc, maxIter) ==
    Gt(FAbs(Sub(fr.y0, fr.y1)), acc)

\* The condition of RATE's secant loop.
RateContinue(fr, acc, maxIter) ==
    Gt(FAbs(Sub(fr.y0, fr.y1)), acc) /\ (fr.i < maxIter)

\* RATE up to the loop with the timing of the payments left out of y1.
RateBegin_NoDue(a, acc) ==
    LET r == a.guess
        f == lamdaF(r, Zero, acc, a)
    IN  [rate |-> r, i |-> 0, x0 |-> Zero, x1 |-> r,
         y |-> lamda(r, Zero, acc, a), f |-> f,
         y0 |-> Add(Add(a.pv, Mul(a.pmt, FromInt(a.nper))), a.fv),
         y1 |-> Add(Add(Mul(a.pv, f),
                        Mul(Mul(a.pmt, Div(One, r)), Sub(f, One))),
                    a.fv)]

\* RATE up to the loop: the first function value and the two start points.
RateBegin(a, acc) ==
    LET r == a.guess
        f == lamdaF(r, Zero, acc, a)
    IN  [rate |-> r, i |-> 0, x0 |-> Zero, x1 |-> r,
         y |-> lamda(r, Zero, acc, a), f |-> f,
         y0 |-> Add(Add(a.pv, Mul(a.pmt, FromInt(a.nper))), a.fv),
         y1 |-> Add(Add(Mul(a.pv, f),
                        Mul(Mul(a.pmt, Add(Div(One, r), a.due)), Sub(f, One))),
                    a.fv)]

\* One pass of the loop body with x0 declared at package level instead of
\* inside RATE: every call reads the x0 the first caller's frame holds.
RateStep_SharedLocals(fr, a, acc) ==
    LET r == Div(Sub(Mul(fr.y1, frame.x0), Mul(fr.y0, fr.x1)), Sub(fr.y1, fr.y0))
        yy == lamda(r, fr.f, acc, a)
    IN  [rate |-> r, i |-> fr.i + 1, x0 |-> fr.x1, x1 |-> r,
         y |-> yy, f |-> lamdaF(r, fr.f, acc, a),
         y0 |-> fr.y1, y1 |-> yy]

\* One pass of the loop body.
RateStep(fr, a, acc) ==
    LET r == Div(Sub(Mul(fr.y1, fr.x0), Mul(fr.y0, fr.x1)), Sub(fr.y1, fr.y0))
        yy == lamda(r, fr.f, acc, a)
    IN  [rate |-> r, i |-> fr.i + 1, x0 |-> fr.x1, x1 |-> r,
         y |-> yy, f |-> lamdaF(r, fr.f, acc, a),
         y0 |-> fr.y1, y1 |-> yy]

\* RATE run from a frame to its return.
RECURSIVE RateRun(_, _, _, _)
RateRun(fr, a, acc, maxIter) ==
    IF RateContinue(fr, acc, maxIter) THEN RateRun(RateStep(fr, a, acc), a, acc, maxIter)
    ELSE fr.rate

\* RATE as one uninterrupted call.
RATE(a, acc, maxIter) == RateRun(RateBegin(a, acc), a, acc, maxIter)

----------------------------------------------------------------------------
\* The installment calculator

\* math.Floor
Floor(x) == IF IsFinite(x) THEN FromInt(x[1] \div x[2]) ELSE x

\* php.Round(val, precision): val rounded to precision decimal places,
\* halves rounded up.
Round(val, precision) ==
    LET pw == Pow(FromInt(10), precision)
    IN  Div(Floor(Add(Mul(val, pw), <<1, 2>>)), pw)

\* CalculatePrincipal taking the PPMT branch whatever the method.
CalculatePrincipal_IgnoresMethod(ln, period) ==
    LET monthlyRate == Div(ln.AnnualRate, FromInt(12))
    IN  PPMT(monthlyRate, period, ln.Periods, Neg(ln.Amount), Zero, Zero)

CalculatePrincipal(ln, period) ==
    IF ln.Method = EqualPrincipal THEN Div(ln.Amount, FromInt(ln.Periods))
    ELSE LET monthlyRate == Div(ln.AnnualRate, FromInt(12))
         IN  PPMT(monthlyRate, period, ln.Periods, Neg(ln.Amount), Zero, Zero)

\* CalculateInterest using the declining-balance shortcut whatever the method.
CalculateInterest_IgnoresMethod(ln, period) ==
    LET monthlyRate == Div(ln.AnnualRate, FromInt(12))
        remainingAmount ==
            Div(Mul(ln.Amount, FromInt(ln.Periods - period + 1)), FromInt(ln.Periods))
    IN  Mul(remainingAmount, monthlyRate)

\* CalculateInterest charging the balance left after the period's repayment.
CalculateInterest_BalanceAfter(ln, period) ==
    LET monthlyRate == Div(ln.AnnualRate, FromInt(12))
    IN  IF ln.Method = EqualPrincipal
        THEN LET remainingAmount ==
                     Div(Mul(ln.Amount, FromInt(ln.Periods - period)),
                         FromInt(ln.Periods))
             IN  Mul(remainingAmount, monthlyRate)
        ELSE IPMT(monthlyRate, period, ln.Periods, Neg(ln.Amount), Zero, Zero)

CalculateInterest(ln, period) ==
    LET monthlyRate == Div(ln.AnnualRate, FromInt(12))
    IN  IF ln.Method = EqualPrincipal
        THEN LET remainingAmount ==
                     Div(Mul(ln.Amount, FromInt(ln.Periods - period + 1)),
                         FromInt(ln.Periods))
             IN  Mul(remainingAmount, monthlyRate)
        ELSE IPMT(monthlyRate, period, ln.Periods, Neg(ln.Amount), Zero, Zero)

\* CalculatePayment leaving the interest out.
CalculatePayment_PrincipalOnly(ln, period) == CalculatePrincipal(ln, period)

CalculatePayment(ln, period) ==
    Add(CalculatePrincipal(ln, period), CalculateInterest(ln, period))

\* The total with monthlyRate * Periods / 2 as the interest factor.
TotalBeforeRounding_PeriodsOnly(ln) ==
    LET monthlyRate == Div(ln.AnnualRate, FromInt(12))
    IN  IF ln.Method = EqualPrincipal
        THEN Mul(ln.Amount,
                 Add(One, Div(Mul(monthlyRate, FromInt(ln.Periods)), FromInt(2))))
        ELSE Mul(PMT(monthlyRate, ln.Periods, Neg(ln.Amount), Zero, Zero),
                 FromInt(ln.Periods))

\* The value CalculateTotalPayment hands to php.Round.
TotalBeforeRounding(ln) ==
    LET monthlyRate == Div(ln.AnnualRate, FromInt(12))
    IN  IF ln.Method = EqualPrincipal
        THEN Mul(ln.Amount,
                 Add(One, Div(Mul(monthlyRate, FromInt(1 + ln.Periods)),
                              FromInt(2))))
        ELSE Mul(PMT(monthlyRate, ln.Periods, Neg(ln.Amount), Zero, Zero),
                 FromInt(ln.Periods))

CalculateTotalPayment(ln, precision) == Round(TotalBeforeRounding(ln), precision)

CalculateTotalInterest(ln, precision) ==
    Round(Sub(CalculateTotalPayment(ln, precision), ln.Amount), precision)

\* The rounded principal of the periods 1..p, added up.
RECURSIVE RepaidPrincipal(_, _, _)
RepaidPrincipal(ln, p, precision) ==
    IF p <= 0 THEN Zero
    ELSE Add(RepaidPrincipal(ln, p - 1, precision),
             Round(CalculatePrincipal(ln, p), precision))

\* The row with a running balance: Amount less everything repaid so far.
InstallmentRow_RunningBalance(ln, p, precision) ==
    [Period |-> p,
     Payment |-> Round(CalculatePayment(ln, p), precision),
     Principal |-> Round(CalculatePrincipal(ln, p), precision),
     Interest |-> Round(CalculateInterest(ln, p), precision),
     RemainingAmount |->
         Round(Sub(ln.Amount, RepaidPrincipal(ln, p, precision)), precision)]

\* The Installment one pass of CalculateInstallments' loop fills in.
InstallmentRow(ln, p, precision) ==
    LET principal == Round(CalculatePrincipal(ln, p), precision)
    IN  [Period |-> p,
         Payment |-> Round(CalculatePayment(ln, p), precision),
         Principal |-> principal,
         Interest |-> Round(CalculateInterest(ln, p), precision),
         RemainingAmount |-> Round(Sub(ln.Amount, principal), precision)]

----------------------------------------------------------------------------
\* Calls of PMT, IPMT, PPMT, PV and FV on bounded arguments

MaxRateNum == 4
RateDen == 2
MaxNper == 3
MaxVal == 1

Rates == {Norm(k, RateDen) : k \in (-MaxRateNum)..MaxRateNum}
Values == {FromInt(k) : k \in (-MaxVal)..MaxVal}
Dues == {Zero, One}

InitConfig ==
    /\ Accuracy = DefaultAccuracy
    /\ MaxIterations = DefaultMaxIterations
    /\ Precision = DefaultPrecision

\* The zero values of RATE's local variables (var x0, x1, y, f float64).
ZeroFrame ==
    [rate |-> Zero, i |-> 0, x0 |-> Zero, x1 |-> Zero, y |-> Zero, f |-> Zero,
     y0 |-> Zero, y1 |-> Zero]

\* The zero values of RATE's arguments.
ZeroArgs ==
    [rate |-> Zero, per |-> 0, nper |-> 0, pmt |-> Zero, pv |-> Zero, fv |-> Zero,
     due |-> Zero, guess |-> Zero]

\* No call of RATE is in progress.
RateIdle ==
    /\ pc = "idle"
    /\ frame = ZeroFrame
    /\ otherArgs = ZeroArgs
    /\ otherPc = "idle"
    /\ otherFrame = ZeroFrame
    /\ otherRet = Zero

\* The zero value of an Installment, and of CalculateInstallments' locals.
ZeroInstallment ==
    [Period |-> 0, Payment |-> Zero, Principal |-> Zero, Interest |-> Zero,
     RemainingAmount |-> Zero]

ZeroLoanFrame == [p |-> 0, installment |-> ZeroInstallment, installments |-> <<>>]

ZeroLoan == [Amount |-> Zero, Periods |-> 0, AnnualRate |-> Zero, Method |-> 0]

\* No Loan is in use.
LoanIdle ==
    /\ loan = ZeroLoan
    /\ lpc = "idle"
    /\ lframe = ZeroLoanFrame
    /\ lret = <<>>

InitFormula ==
    /\ InitConfig
    /\ args \in [rate : Rates, per : (-1)..(MaxNper + 1), nper : 0..MaxNper,
                 pmt : {Zero}, pv : Values, fv : Values, due : Dues,
                 guess : {Zero}]
    /\ op = ""
    /\ ret = Zero
    /\ RateIdle
    /\ LoanIdle

CallPMT ==
    /\ op = ""
    /\ op' = "PMT"
    /\ ret' = PMT(args.rate, args.nper, args.pv, args.fv, args.due)
    /\ UNCHANGED <<config, otherVars, args, rateVars, loanVars>>

CallIPMT ==
    /\ op = ""
    /\ op' = "IPMT"
    /\ ret' = IPMT(args.rate, args.per, args.nper, args.pv, args.fv, args.due)
    /\ UNCHANGED <<config, otherVars, args, rateVars, loanVars>>

CallPPMT ==
    /\ op = ""
    /\ op' = "PPMT"
    /\ ret' = PPMT(args.rate, args.per, args.nper, args.pv, args.fv, args.due)
    /\ UNCHANGED <<config, otherVars, args, rateVars, loanVars>>

\* PV called with the payment PMT has just returned.
CallPV ==
    /\ op = "PMT"
    /\ op' = "PV"
    /\ args' = [args EXCEPT !.pmt = ret]
    /\ ret' = PV(args.rate, args.nper, ret, args.fv, args.due)
    /\ UNCHANGED <<config, otherVars, rateVars, loanVars>>

\* FV called with the payment PMT has just returned.
CallFV ==
    /\ op = "PMT"
    /\ op' = "FV"
    /\ args' = [args EXCEPT !.pmt = ret]
    /\ ret' = FV(args.rate, args.nper, ret, args.pv, args.due)
    /\ UNCHANGED <<config, otherVars, rateVars, loanVars>>

NextFormula == CallPMT \/ CallIPMT \/ CallPPMT \/ CallPV \/ CallFV

SpecFormula == InitFormula /\ [][NextFormula]_vars

\* The period lies in [1, nper].
InRange == 1 <= args.per /\ args.per <= args.nper

\* The payment of the call's arguments, and the interest accrued through
\* period per-1 as the documentation of IPMT states it.
ArgsPayment == PMT(args.rate, args.nper, args.pv, args.fv, args.due)

ArgsInterest ==
    LET g == Pow(Add(One, args.rate), args.per - 1)
    IN  Neg(Add(Mul(Mul(args.pv, g), args.rate), Mul(ArgsPayment, Sub(g, One))))

\* C3: IPMT and PPMT return 0 for every per < 1 and every per > nper,
\* whatever the other arguments are; for 1 <= per <= nper they return the
\* formula value (the interest through period per-1, and the payment less
\* that interest).
C3_OutOfRangeIsZero ==
    /\ op = "IPMT" => ret = (IF InRange THEN ArgsInterest ELSE Zero)
    /\ op = "PPMT" => ret = (IF InRange THEN Sub(ArgsPayment, ArgsInterest) ELSE Zero)

C3_Witness ==
    /\ op = "PPMT"
    /\ args.nper >= 1
    /\ args.per = args.nper + 1
    /\ args.pv # Zero
    /\ args.rate = Norm(1, RateDen)
    /\ ret = Zero

\* C4: for every per in [1, nper], PPMT(rate, per, nper, pv, fv, timing) is
\* PMT(rate, nper, pv, fv, timing) - IPMT(rate, per, nper, pv, fv, timing).
C4_PrincipalIsPaymentLessInterest ==
    (op = "PPMT" /\ InRange) =>
        ret = Sub(PMT(args.rate, args.nper, args.pv, args.fv, args.due),
                  IPMT(args.rate, args.per, args.nper, args.pv, args.fv, args.due))

C4_Witness ==
    /\ op = "PPMT"
    /\ InRange
    /\ args.per >= 2
    /\ args.rate = Norm(1, RateDen)
    /\ args.pv = FromInt(-1)
    /\ IsFinite(ret)
    /\ ret # Zero
    /\ ret # ArgsPayment

\* C5: when rate = 0, PMT(0, nper, pv, fv, timing) is -(fv + pv)/nper for
\* every nper >= 1, pv, fv and both timings.
C5_ZeroRatePayment ==
    (op = "PMT" /\ args.rate = Zero /\ args.nper >= 1) =>
        ret = Div(Neg(Add(args.fv, args.pv)), FromInt(args.nper))

C5_Witness ==
    /\ op = "PMT"
    /\ args.rate = Zero
    /\ args.nper >= 2
    /\ args.due = One
    /\ Add(args.fv, args.pv) # Zero
    /\ IsFinite(ret)
    /\ ret # Zero

\* C6: for every rate > -1 and nper >= 1, PV called with the payment that
\* PMT returned for (rate, nper, pv, fv, timing) returns pv again.
C6_RoundTrip ==
    (op = "PV" /\ Gt(args.rate, FromInt(-1)) /\ args.nper >= 1) => ret = args.pv

C6_Witness ==
    /\ op = "PV"
    /\ args.nper >= 2
    /\ args.rate = Norm(1, RateDen)
    /\ args.due = One
    /\ args.pv # Zero
    /\ args.fv # Zero
    /\ args.pmt # Zero
    /\ ret = args.pv

----------------------------------------------------------------------------
\* Calls of NPER on bounded arguments

MaxNperVal == 2

NperValues == {FromInt(k) : k \in (-MaxNperVal)..MaxNperVal}

InitNper ==
    /\ InitConfig
    /\ args \in [rate : Rates, per : {0}, nper : {0},
                 pmt : NperValues, pv : NperValues, fv : NperValues, due : Dues,
                 guess : {Zero}]
    /\ op = ""
    /\ ret = Zero
    /\ RateIdle
    /\ LoanIdle

CallNPER ==
    /\ op = ""
    /\ op' = "NPER"
    /\ ret' = NPER(args.rate, args.pmt, args.pv, args.fv, args.due)
    /\ UNCHANGED <<config, otherVars, args, rateVars, loanVars>>

NextNper == CallNPER

SpecNper == InitNper /\ [][NextNper]_vars

\* C7: for rate = 0 and pmt # 0, NPER(0, pmt, pv, fv, timing) returns
\* -fv/pmt - pv/pmt, that is -(fv + pv)/pmt, for every pv and every fv.
C7_ZeroRatePeriods ==
    (op = "NPER" /\ args.rate = Zero /\ args.pmt # Zero) =>
        ret = Sub(Div(Neg(args.fv), args.pmt), Div(args.pv, args.pmt))

\* The argument of the logarithm as the documentation of NPER states it.
ArgsRatio ==
    LET initial == Mul(args.pmt, Add(One, Mul(args.rate, args.due)))
    IN  Div(Sub(initial, Mul(args.fv, args.rate)),
            Add(Mul(args.pv, args.rate), initial))

----------------------------------------------------------------------------
\* A call of RATE on bounded arguments, one pass of its loop at a time

MaxRateNper == 2
MaxRateVal == 1
MaxGuessNum == 1
GuessDen == 4

RateValues == {FromInt(k) : k \in (-MaxRateVal)..MaxRateVal}
Guesses == {Norm(k, GuessDen) : k \in 0..MaxGuessNum}

InitRate ==
    /\ InitConfig
    /\ args \in [rate : {Zero}, per : {0}, nper : 1..MaxRateNper,
                 pmt : RateValues, pv : RateValues, fv : RateValues, due : Dues,
                 guess : Guesses]
    /\ op = ""
    /\ ret = Zero
    /\ RateIdle
    /\ LoanIdle

RateEnter ==
    /\ pc = "idle"
    /\ frame' = RateBegin(args, Accuracy)
    /\ pc' = "loop"
    /\ UNCHANGED <<config, otherVars, formulaVars, loanVars>>

RateIterate ==
    /\ pc = "loop"
    /\ RateContinue(frame, Accuracy, MaxIterations)
    /\ frame' = RateStep(frame, args, Accuracy)
    /\ UNCHANGED <<config, otherVars, formulaVars, pc, loanVars>>

RateReturn ==
    /\ pc = "loop"
    /\ ~RateContinue(frame, Accuracy, MaxIterations)
    /\ pc' = "done"
    /\ op' = "RATE"
    /\ ret' = frame.rate
    /\ UNCHANGED <<config, otherVars, args, frame, loanVars>>

NextRate == RateEnter \/ RateIterate \/ RateReturn

SpecRate == InitRate /\ [][NextRate]_vars

\* The last two function values differ by more than Accuracy.
StillApart == Gt(FAbs(Sub(frame.y0, frame.y1)), Accuracy)

\* C9: RATE always terminates: its loop makes at most MaxIterations passes,
\* a pass is made only while the last two function values differ by more
\* than Accuracy, the loop is left as soon as they do not, and a NaN
\* function value ends it too.
C9_RateTerminates ==
    /\ [](frame.i <= MaxIterations)
    /\ [][(pc = "loop" /\ pc' = "loop") =>
              (StillApart /\ frame.i < MaxIterations /\ frame'.i = frame.i + 1)]_vars
    /\ [][(pc = "loop" /\ ~StillApart) => pc' = "done"]_vars
    /\ [][(pc = "loop" /\ IsNaN(frame.y1)) => (pc' = "done" /\ ret' = frame.rate)]_vars

C9_Witness ==
    /\ pc = "done"
    /\ frame.i = MaxIterations
    /\ MaxIterations = DefaultMaxIterations
    /\ StillApart
    /\ ret = frame.rate

----------------------------------------------------------------------------
\* Calls of the methods of a Loan, CalculateInstallments one pass at a time

MaxAmount == 3
MaxPeriods == 3
MaxMonthlyNum == 2
MonthlyDen == 2

Amounts == {FromInt(k) : k \in 1..MaxAmount}
AnnualRates == {Norm(12 * k, MonthlyDen) : k \in 0..MaxMonthlyNum}

InitLoan ==
    /\ InitConfig
    /\ args \in [rate : {Zero}, per : 0..(MaxPeriods + 1), nper : {0},
                 pmt : {Zero}, pv : {Zero}, fv : {Zero}, due : {Zero},
                 guess : {Zero}]
    /\ op = ""
    /\ ret = Zero
    /\ RateIdle
    /\ loan \in [Amount : Amounts, Periods : 0..MaxPeriods,
                 AnnualRate : AnnualRates, Method : {EqualPayment, EqualPrincipal}]
    /\ lpc = "idle"
    /\ lframe = ZeroLoanFrame
    /\ lret = <<>>

\* No method of the loan has been called yet.
LoanFresh == op = "" /\ lpc = "idle"

CallCalculatePayment ==
    /\ LoanFresh
    /\ op' = "CalculatePayment"
    /\ ret' = CalculatePayment(loan, args.per)
    /\ UNCHANGED <<config, otherVars, args, rateVars, loanVars>>

CallCalculatePrincipal ==
    /\ LoanFresh
    /\ op' = "CalculatePrincipal"
    /\ ret' = CalculatePrincipal(loan, args.per)
    /\ UNCHANGED <<config, otherVars, args, rateVars, loanVars>>

CallCalculateInterest ==
    /\ LoanFresh
    /\ op' = "CalculateInterest"
    /\ ret' = CalculateInterest(loan, args.per)
    /\ UNCHANGED <<config, otherVars, args, rateVars, loanVars>>

CallCalculateTotalPayment ==
    /\ LoanFresh
    /\ op' = "CalculateTotalPayment"
    /\ ret' = CalculateTotalPayment(loan, Precision)
    /\ UNCHANGED <<config, otherVars, args, rateVars, loanVars>>

CallCalculateTotalInterest ==
    /\ LoanFresh
    /\ op' = "CalculateTotalInterest"
    /\ ret' = CalculateTotalInterest(loan, Precision)
    /\ UNCHANGED <<config, otherVars, args, rateVars, loanVars>>

InstallmentsEnter ==
    /\ lpc = "idle"
    /\ lpc' = "loop"
    /\ lframe' = [p |-> 1, installment |-> ZeroInstallment, installments |-> <<>>]
    /\ UNCHANGED <<config, otherVars, formulaVars, rateVars, loan, lret>>

\* One pass of the loop: the row is filled in and p is incremented; nothing
\* is appended to installments.
InstallmentsIterate ==
    /\ lpc = "loop"
    /\ lframe.p < loan.Periods
    /\ lframe' = [lframe EXCEPT !.installment = InstallmentRow(loan, lframe.p, Precision),
                                !.p = lframe.p + 1]
    /\ UNCHANGED <<config, otherVars, formulaVars, rateVars, loan, lpc, lret>>

InstallmentsReturn ==
    /\ lpc = "loop"
    /\ ~(lframe.p < loan.Periods)
    /\ lpc' = "done"
    /\ lret' = lframe.installments
    /\ UNCHANGED <<config, otherVars, formulaVars, rateVars, loan, lframe>>

NextLoan ==
    \/ CallCalculatePayment
    \/ CallCalculatePrincipal
    \/ CallCalculateInterest
    \/ CallCalculateTotalPayment
    \/ CallCalculateTotalInterest
    \/ LoanFresh /\ InstallmentsEnter
    \/ InstallmentsIterate
    \/ InstallmentsReturn

SpecLoan == InitLoan /\ [][NextLoan]_vars

\* C1: for every Loan with Periods >= 1, CalculateInstallments returns one
\* Installment per period 1 .. Periods-1, in order: Periods-1 rows, the row
\* at 0-based index i having Period = i+1.
C1_OneRowPerPeriod ==
    (lpc = "done" /\ loan.Periods >= 1) =>
        /\ Len(lret) = loan.Periods - 1
        /\ \A k \in 1..Len(lret) : lret[k].Period = k

\* The rounded fields of a row add up to within one cent.
RowAddsUp(row) ==
    Le(FAbs(Sub(row.Payment, Add(row.Principal, row.Interest))), <<1, 100>>)

\* C2: in every installment row CalculateInstallments computes (any period
\* in 1..Periods, either method, Precision = 2) the independently rounded
\* fields satisfy |Payment - (Principal + Interest)| <= 0.01.
C2_RowAddsUpToACent ==
    /\ (lpc = "loop" /\ lframe.p > 1) => RowAddsUp(lframe.installment)
    /\ \A q \in 1..loan.Periods : RowAddsUp(InstallmentRow(loan, q, Precision))

C2_Witness ==
    /\ lpc = "loop"
    /\ lframe.p > 1
    /\ Precision = 2
    /\ lframe.installment.Period = lframe.p - 1
    /\ lframe.installment.Interest # Zero
    /\ lframe.installment.Payment #
           Add(lframe.installment.Principal, lframe.installment.Interest)

\* The payment per period of the loan by the PMT formula.
LoanPMT ==
    PMT(Div(loan.AnnualRate, FromInt(12)), loan.Periods, Neg(loan.Amount), Zero, Zero)

\* C10: for an EqualPayment loan CalculatePayment(p), the sum of
\* CalculatePrincipal(p) and CalculateInterest(p), is the same for every
\* period p in 1..Periods, namely PMT(AnnualRate/12, Periods, -Amount, 0, 0),
\* and every schedule row carries that payment (rounded).
C10_EqualPaymentIsConstant ==
    loan.Method = EqualPayment =>
        /\ (op = "CalculatePayment" /\ 1 <= args.per /\ args.per <= loan.Periods) =>
               ret = LoanPMT
        /\ (lpc = "loop" /\ lframe.p > 1) =>
               lframe.installment.Payment = Round(LoanPMT, Precision)

C10_Witness ==
    /\ loan.Method = EqualPayment
    /\ loan.AnnualRate # Zero
    /\ op = "CalculatePayment"
    /\ args.per >= 2
    /\ args.per = loan.Periods
    /\ ret = LoanPMT
    /\ IsFinite(ret)
    /\ CalculateInterest(loan, args.per) # CalculateInterest(loan, 1)

\* C11: for an EqualPrincipal loan CalculatePrincipal(p) is Amount/Periods,
\* the same for every period p and every annual rate, and CalculatePayment(p)
\* is Amount/Periods + CalculateInterest(p).
C11_EqualPrincipalIsConstant ==
    loan.Method = EqualPrincipal =>
        /\ op = "CalculatePrincipal" =>
               /\ ret = Div(loan.Amount, FromInt(loan.Periods))
               /\ \A q \in 0..(MaxPeriods + 1) : \A r \in AnnualRates :
                      CalculatePrincipal([loan EXCEPT !.AnnualRate = r], q) = ret
        /\ op = "CalculatePayment" =>
               ret = Add(Div(loan.Amount, FromInt(loan.Periods)),
                         CalculateInterest(loan, args.per))

C11_Witness ==
    /\ loan.Method = EqualPrincipal
    /\ loan.AnnualRate # Zero
    /\ loan.Periods >= 2
    /\ op = "CalculatePayment"
    /\ args.per = loan.Periods
    /\ IsFinite(ret)
    /\ ret # Div(loan.Amount, FromInt(loan.Periods))
    /\ ret # CalculatePayment(loan, 1)

----------------------------------------------------------------------------
\* Any public operation called once on degenerate arguments

MaxEdge == 1

EdgeValues == {FromInt(k) : k \in (-MaxEdge)..MaxEdge}

\* The arguments of the annuity formulas, of NPER or of RATE are drawn, or
\* the loan is; what is not drawn is zero.
InitPublic ==
    /\ InitConfig
    /\ op = ""
    /\ ret = Zero
    /\ RateIdle
    /\ lpc = "idle"
    /\ lframe = ZeroLoanFrame
    /\ lret = <<>>
    /\ \/ /\ args \in [rate : EdgeValues, per : 0..(MaxEdge + 1), nper : 0..MaxEdge,
                       pmt : {Zero}, pv : EdgeValues, fv : EdgeValues,
                       due : Dues, guess : {Zero}]
          /\ loan = ZeroLoan
       \/ /\ args \in [rate : EdgeValues, per : {0}, nper : {0},
                       pmt : EdgeValues, pv : EdgeValues, fv : EdgeValues,
                       due : Dues, guess : {Zero}]
          /\ loan = ZeroLoan
       \/ /\ args \in [rate : {Zero}, per : {0}, nper : 0..MaxEdge,
                       pmt : EdgeValues, pv : EdgeValues, fv : {Zero},
                       due : Dues, guess : Guesses]
          /\ loan = ZeroLoan
       \/ /\ args \in [rate : {Zero}, per : 0..(MaxEdge + 2), nper : {0},
                       pmt : {Zero}, pv : {Zero}, fv : {Zero}, due : {Zero},
                       guess : {Zero}]
          /\ loan \in [Amount : {FromInt(k) : k \in 0..MaxEdge},
                       Periods : 0..(MaxEdge + 1),
                       AnnualRate : {FromInt(12 * k) : k \in 0..MaxEdge},
                       Method : {EqualPayment, EqualPrincipal}]

\* Nothing has been called yet.
PublicFresh == op = "" /\ pc = "idle" /\ lpc = "idle"

NextPublic ==
    \/ PublicFresh /\ CallPMT
    \/ PublicFresh /\ CallIPMT
    \/ PublicFresh /\ CallPPMT
    \/ CallPV
    \/ CallFV
    \/ PublicFresh /\ CallNPER
    \/ PublicFresh /\ RateEnter
    \/ RateIterate
    \/ RateReturn
    \/ PublicFresh /\ CallCalculatePayment
    \/ PublicFresh /\ CallCalculatePrincipal
    \/ PublicFresh /\ CallCalculateInterest
    \/ PublicFresh /\ CallCalculateTotalPayment
    \/ PublicFresh /\ CallCalculateTotalInterest
    \/ PublicFresh /\ InstallmentsEnter
    \/ InstallmentsIterate
    \/ InstallmentsReturn

SpecPublic == InitPublic /\ [][NextPublic]_vars

\* x is a float64 value: a fraction in lowest terms that fits the mantissa,
\* an infinity or NaN.
IsFloat64(x) ==
    \/ x \in {NaN, PosInf, NegInf}
    \/ /\ x[2] > 0
       /\ IAbs(x[1]) <= MantissaMax
       /\ x[2] <= MantissaMax
       /\ GCD(IAbs(x[1]), x[2]) = 1

\* Everything the operations have computed so far is a float64 value.
AllFloat64 ==
    /\ IsFloat64(ret)
    /\ \A k \in {"rate", "x0", "x1", "y", "f", "y0", "y1"} : IsFloat64(frame[k])
    /\ \A k \in {"Payment", "Principal", "Interest", "RemainingAmount"} :
           IsFloat64(lframe.installment[k])

\* C12 as stated: whatever the input, an operation returns a number, with 0
\* or NaN as the only values that signal a degenerate case: no result is an
\* infinity.
C12_ZeroOrNaNSentinel ==
    /\ AllFloat64
    /\ op # "" => ~IsInf(ret)

\* C12, amended: whatever the input (zero or negative rate, out-of-range
\* period, non-positive log argument, coinciding secant iterates,
\* Periods = 0) every operation completes with a float64 value, which in a
\* degenerate case is 0, NaN or an infinity: an out-of-range period gives 0,
\* NPER gives 0 at a negative rate, a loan of Periods = 0 has no rows, and its
\* per-period principal is 0 for EqualPayment and Amount/0 (+Inf, or NaN for
\* Amount = 0) for EqualPrincipal.
C12_AlwaysAFloat64 ==
    /\ AllFloat64
    /\ (op \in {"IPMT", "PPMT"} /\ ~(1 <= args.per /\ args.per <= args.nper)) =>
           ret = Zero
    /\ (op = "NPER" /\ Lt(args.rate, Zero)) => ret = Zero
    /\ (op = "CalculatePrincipal" /\ loan.Periods = 0) =>
           ret = IF loan.Method = EqualPayment THEN Zero
                 ELSE IF loan.Amount = Zero THEN NaN ELSE PosInf
    /\ (lpc = "done" /\ loan.Periods = 0) => lret = <<>>
    /\ pc = "done" => (op = "RATE" /\ ret = frame.rate)

C12_Witness ==
    /\ op = "CalculatePrincipal"
    /\ loan.Periods = 0
    /\ loan.Method = EqualPrincipal
    /\ ret = PosInf

----------------------------------------------------------------------------
\* Concurrent calls: two goroutines in RATE and one in CalculateInstallments

MaxConcurrentIterations == 3
MaxConcurrentVal == 2

ConcurrentValues == {FromInt(k) : k \in 1..MaxConcurrentVal}

\* The program has set MaxIterations before the goroutines start.
InitConcurrent ==
    /\ Accuracy = DefaultAccuracy
    /\ MaxIterations = MaxConcurrentIterations
    /\ Precision = DefaultPrecision
    /\ args \in [rate : {Zero}, per : {0}, nper : {MaxRateNper},
                 pmt : {Neg(One)}, pv : ConcurrentValues, fv : {Zero}, due : {Zero},
                 guess : Guesses]
    /\ otherArgs \in [rate : {Zero}, per : {0}, nper : {1},
                      pmt : {Neg(One)}, pv : ConcurrentValues, fv : {Zero},
                      due : {One}, guess : Guesses \ {Zero}]
    /\ op = ""
    /\ ret = Zero
    /\ pc = "idle"
    /\ frame = ZeroFrame
    /\ otherPc = "idle"
    /\ otherFrame = ZeroFrame
    /\ otherRet = Zero
    /\ loan \in [Amount : {FromInt(MaxAmount)}, Periods : {MaxPeriods},
                 AnnualRate : {FromInt(12)}, Method : {EqualPayment, EqualPrincipal}]
    /\ lpc = "idle"
    /\ lframe = ZeroLoanFrame
    /\ lret = <<>>

\* The steps of the second goroutine's call of RATE.
OtherRateEnter ==
    /\ otherPc = "idle"
    /\ otherFrame' = RateBegin(otherArgs, Accuracy)
    /\ otherPc' = "loop"
    /\ UNCHANGED <<config, formulaVars, rateVars, loanVars, otherArgs, otherRet>>

OtherRateIterate ==
    /\ otherPc = "loop"
    /\ RateContinue(otherFrame, Accuracy, MaxIterations)
    /\ otherFrame' = RateStep(otherFrame, otherArgs, Accuracy)
    /\ UNCHANGED <<config, formulaVars, rateVars, loanVars, otherArgs, otherPc, otherRet>>

OtherRateReturn ==
    /\ otherPc = "loop"
    /\ ~RateContinue(otherFrame, Accuracy, MaxIterations)
    /\ otherPc' = "done"
    /\ otherRet' = otherFrame.rate
    /\ UNCHANGED <<config, formulaVars, rateVars, loanVars, otherArgs, otherFrame>>

NextConcurrent ==
    \/ RateEnter
    \/ RateIterate
    \/ RateReturn
    \/ OtherRateEnter
    \/ OtherRateIterate
    \/ OtherRateReturn
    \/ InstallmentsEnter
    \/ InstallmentsIterate
    \/ InstallmentsReturn

SpecConcurrent == InitConcurrent /\ [][NextConcurrent]_vars

\* C13: the operations only read Accuracy, MaxIterations and Precision and
\* their own arguments and write nothing another call reads: however the
\* steps of concurrent calls interleave, the configuration stays as it was
\* set and each call returns what it returns when run alone.
C13_InterleavingIsSequential ==
    /\ config = <<DefaultAccuracy, MaxConcurrentIterations, DefaultPrecision>>
    /\ pc = "done" => ret = RATE(args, Accuracy, MaxIterations)
    /\ otherPc = "done" => otherRet = RATE(otherArgs, Accuracy, MaxIterations)
    /\ (lpc = "loop" /\ lframe.p > 1) =>
           lframe.installment = InstallmentRow(loan, lframe.p - 1, Precision)
    /\ lpc = "done" => lret = <<>>

C13_Witness ==
    /\ pc = "loop"
    /\ frame.i >= 1
    /\ otherPc = "done"
    /\ otherFrame.i >= 2
    /\ IsFinite(otherRet)
    /\ otherRet # ret
    /\ lpc = "loop"
    /\ lframe.p > 1

----------------------------------------------------------------------------
\* The schedule as sums over the periods (checked under SpecLoan)

\* The sum of CalculatePayment(p) over p = 1..n.
RECURSIVE SumPayments(_, _)
SumPayments(ln, n) ==
    IF n <= 0 THEN Zero ELSE Add(SumPayments(ln, n - 1), CalculatePayment(ln, n))

\* The sum of CalculateInterest(p) over p = 1..n.
RECURSIVE SumInterest(_, _)
SumInterest(ln, n) ==
    IF n <= 0 THEN Zero ELSE Add(SumInterest(ln, n - 1), CalculateInterest(ln, n))

\* The total CalculateTotalPayment rounds is the sum of the payments of all
\* periods, for EqualPrincipal also Amount plus the sum of the interest.
TotalIsSumOfPayments ==
    /\ TotalBeforeRounding(loan) = SumPayments(loan, loan.Periods)
    /\ loan.Method = EqualPrincipal =>
           TotalBeforeRounding(loan) =
               Add(loan.Amount, SumInterest(loan, loan.Periods))
    /\ op = "CalculateTotalPayment" =>
           ret = Round(SumPayments(loan, loan.Periods), Precision)

\* C14 as stated, for every loan: the closed form
\* Amount*(1 + monthlyRate*(1+Periods)/2) of EqualPrincipal, and PMT*Periods
\* of EqualPayment, equals before rounding the sum over p = 1..Periods of
\* CalculatePayment(p).
C14_TotalIsSumOfPaymentsAnyPeriods == TotalIsSumOfPayments

\* C14, amended: the same for every loan with Periods >= 1.
C14_TotalIsSumOfPayments == loan.Periods >= 1 => TotalIsSumOfPayments

C14_Witness ==
    /\ op = "CalculateTotalPayment"
    /\ loan.Method = EqualPrincipal
    /\ loan.Periods >= 3
    /\ loan.AnnualRate # Zero
    /\ ret = Round(SumPayments(loan, loan.Periods), Precision)
    /\ ret # Round(SumPayments(loan, loan.Periods - 1), Precision)
    /\ ret # loan.Amount

\* The balance at the start of period p: Amount less the principal repaid
\* in the periods before p.
RECURSIVE RunningBalance(_, _)
RunningBalance(ln, p) ==
    IF p <= 1 THEN ln.Amount
    ELSE Sub(RunningBalance(ln, p - 1), CalculatePrincipal(ln, p - 1))

\* C15: for an EqualPrincipal loan and every period p in 1..Periods the
\* shortcut interest Amount*(Periods-p+1)/Periods*monthlyRate is monthlyRate
\* times the running balance Amount - (p-1)*Amount/Periods left after the
\* p-1 earlier repayments of principal.
C15_ShortcutIsBalanceAccrual ==
    loan.Method = EqualPrincipal =>
        /\ \A p \in 1..loan.Periods :
               /\ RunningBalance(loan, p) =
                      Sub(loan.Amount,
                          Mul(FromInt(p - 1), Div(loan.Amount, FromInt(loan.Periods))))
               /\ CalculateInterest(loan, p) =
                      Mul(Div(loan.AnnualRate, FromInt(12)), RunningBalance(loan, p))
        /\ (op = "CalculateInterest" /\ 1 <= args.per /\ args.per <= loan.Periods) =>
               ret = Mul(Div(loan.AnnualRate, FromInt(12)),
                         RunningBalance(loan, args.per))

C15_Witness ==
    /\ loan.Method = EqualPrincipal
    /\ loan.AnnualRate # Zero
    /\ loan.Periods >= 3
    /\ op = "CalculateInterest"
    /\ args.per = loan.Periods
    /\ ret = Mul(Div(loan.AnnualRate, FromInt(12)), RunningBalance(loan, args.per))
    /\ ret # Zero
    /\ ret # CalculateInterest(loan, 1)

C17_BalanceRunsDownToZero ==
    /\ (lpc = "loop" /\ lframe.p > 1) =>
           lframe.installment.RemainingAmount =
               Round(Sub(loan.Amount, RepaidPrincipal(loan, lframe.p - 1, Precision)),
                     Precision)
    /\ \A q \in 2..(loan.Periods - 1) :
           Le(InstallmentRow(loan, q, Precision).RemainingAmount,
              InstallmentRow(loan, q - 1, Precision).RemainingAmount)
    /\ (lpc = "done" /\ loan.Periods >= 1) =>
           /\ lframe.installment.Period = loan.Periods
           /\ lframe.installment.RemainingAmount = Zero

----------------------------------------------------------------------------
\* The start of RATE (checked under SpecRate)

\* The residual g(r) = pv*(1+r)^nper + pmt*(1+r*timing)*fvifa(r, nper) + fv,
\* with its zero-rate limit where |r| < Accuracy.
Residual(a, r, acc) ==
    IF Lt(FAbs(r), acc)
    THEN Add(Add(a.pv, Mul(a.pmt, FromInt(a.nper))), a.fv)
    ELSE Add(Add(Mul(a.pv, Pow(Add(One, r), a.nper)),
                 Mul(Mul(a.pmt, Add(One, Mul(r, a.due))), fvifa(r, a.nper))),
             a.fv)

\* RATE has set up its start points and made no pass of the loop yet.
RateStarted == pc # "idle" /\ frame.i = 0

\* The start points are (0, pv + pmt*nper + fv) and (guess, y1).
StartsAtZeroAndGuess ==
    /\ frame.x0 = Zero
    /\ frame.x1 = args.guess
    /\ frame.y0 = Add(Add(args.pv, Mul(args.pmt, FromInt(args.nper))), args.fv)
    /\ frame.y0 = Residual(args, Zero, Accuracy)

----------------------------------------------------------------------------
\* The principal portions added up (checked under SpecFormula)

\* The sum of PPMT(rate, per, nper, pv, fv, due) over per = 1..n.
RECURSIVE SumPPMT(_, _)
SumPPMT(a, n) ==
    IF n <= 0 THEN Zero
    ELSE Add(SumPPMT(a, n - 1), PPMT(a.rate, n, a.nper, a.pv, a.fv, a.due))

\* The EqualPayment loan of -pv over nper periods at the periodic rate.
LoanOf(a) ==
    [Amount |-> Neg(a.pv), Periods |-> a.nper,
     AnnualRate |-> Mul(FromInt(12), a.rate), Method |-> EqualPayment]

\* The sum of CalculatePrincipal(p) over p = 1..n.
RECURSIVE SumPrincipal(_, _)
SumPrincipal(ln, n) ==
    IF n <= 0 THEN Zero ELSE Add(SumPrincipal(ln, n - 1), CalculatePrincipal(ln, n))

\* End-of-period payments over at least one period, with a payment that
\* exists: (1+rate)^nper # 1 or rate = 0.
ArgsAmortise ==
    /\ args.due = Zero
    /\ args.nper >= 1
    /\ IsFinite(PMT(args.rate, args.nper, args.pv, args.fv, args.due))

\* C19: with end-of-period timing and nper >= 1 the principal portions
\* PPMT(rate, per, nper, pv, fv, end) of per = 1..nper add up to -(pv + fv),
\* the last one completing the sum; hence the CalculatePrincipal(p) of an
\* EqualPayment loan add up to Amount.
C19_PrincipalSumsToAmount ==
    (op = "PPMT" /\ args.per = args.nper /\ ArgsAmortise) =>
        /\ Add(SumPPMT(args, args.nper - 1), ret) = Neg(Add(args.pv, args.fv))
        /\ SumPPMT(args, args.nper) = Neg(Add(args.pv, args.fv))
        /\ args.fv = Zero =>
               SumPrincipal(LoanOf(args), args.nper) = LoanOf(args).Amount

C19_Witness ==
    /\ ArgsAmortise
    /\ op = "PPMT"
    /\ args.per = args.nper
    /\ args.nper >= 3
    /\ args.rate # Zero
    /\ args.fv = Zero
    /\ args.pv # Zero
    /\ ret # Zero
    /\ ret # PPMT(args.rate, 1, args.nper, args.pv, args.fv, args.due)
    /\ Add(SumPPMT(args, args.nper - 1), ret) = Neg(args.pv)
    /\ SumPrincipal(LoanOf(args), args.nper) = Neg(args.pv)

====
